---- MODULE Spec2Model ----
(***************************************************************************)
(* Model of SearchValidationPage (page-objects/SearchValidationPage.js):   *)
(* validateSearchResults, navigateToSearchEngine with its two private      *)
(* helpers, executeSearch, extractResultData and captureEvidence, each run *)
(* against a Playwright page whose answers (element counts, texts,         *)
(* visibility, errors) are chosen by the environment; and of the scenario  *)
(* runner (tests/search-validation.spec.js) that awaits them.              *)
(*                                                                         *)
(* Strings that the code inspects character by character (keywords, page   *)
(* text) are sequences of one-character strings.  Every driver call is     *)
(* appended to `log` with its outcome, so orderings can be stated.         *)
(***************************************************************************)
EXTENDS Integers, Sequences, FiniteSets, TLC

VARIABLES
    op,                \* the method being executed: "none", "validate", "navigate", "search", ...
    pc,                \* position inside that method
    outcome,           \* "running", "returned" or "threw"
    errorMessage,      \* message of the Error thrown to the caller: <<prefix, cause>>
    log,               \* driver calls made so far, in order
    expectedKeywords,  \* argument of validateSearchResults
    minResultCount,    \* argument of validateSearchResults
    validationResults, \* the local object validateSearchResults builds
    contentLower,      \* the lower-cased body text
    pageContent,       \* the body text as read
    kidx,              \* position of the for-of loop over expectedKeywords
    returnValue,       \* what the caller received (meaningful when outcome = "returned")
    url,               \* the page's current URL, abstracted to its search mode
    cidx,              \* position of the for-of loop over consentSelectors
    searchTerm,        \* argument of executeSearch
    inputValue,        \* content of the query input element
    self,              \* the validator's own fields: this.locators and this.config
    calls,             \* number of calls the caller has completed on this validator
    page,              \* the result elements the page renders: raw title and description texts
    resultTitles,      \* number of elements extractResultData located as titles
    resultDescriptions,\* number of elements extractResultData located as descriptions
    resultData,        \* the array extractResultData accumulates
    eidx,              \* the loop variable i of extractResultData (0-based)
    titleText,         \* the local titleText of the current iteration
    returnedData,      \* the array the caller of extractResultData received
    captureArgs,       \* arguments of captureEvidence: [name, folder]
    clock,             \* the time new Date() reads
    filePath,          \* the local filePath of captureEvidence
    returnedPath,      \* the path the caller of captureEvidence received
    screenshots,       \* the screenshot files the driver has written: [path, options]
    queryInputs,       \* the query-input elements of the page: [textarea, input]
    rpc,               \* the scenario runner's position
    queryData,         \* the fixture of the scenario: [term, expectedKeywords]
    testConfig,        \* the validation settings of the run: [minResultCount]
    scenarioResults,   \* the runner's validationResults
    scenarioData,      \* the runner's resultData
    caught,            \* the error bound in the test body's catch block
    reported,          \* the errors the test framework reports for the scenario
    testStatus,        \* testInfo.status
    testResults        \* the runner's testResults array

vars == <<op, pc, outcome, errorMessage, log, expectedKeywords, minResultCount, queryInputs,
          validationResults, contentLower, pageContent, kidx, returnValue,
          url, cidx, searchTerm, inputValue, self, calls, page, resultTitles,
          resultDescriptions, resultData, eidx, titleText, returnedData,
          captureArgs, clock, filePath, returnedPath, screenshots,
          rpc, queryData, testConfig, scenarioResults, scenarioData, caught,
          reported, testStatus, testResults>>

validateVars == <<expectedKeywords, minResultCount, validationResults,
                  contentLower, pageContent, kidx, returnValue>>
navVars == <<url, cidx>>
searchVars == <<searchTerm, inputValue, queryInputs>>
sessionVars == <<self, calls>>
extractVars == <<page, resultTitles, resultDescriptions, resultData, eidx,
                 titleText, returnedData>>
extractLocals == <<resultTitles, resultDescriptions, resultData, eidx, titleText,
                   returnedData>>
captureVars == <<captureArgs, clock, filePath, returnedPath, screenshots>>

runnerVars == <<rpc, queryData, testConfig, scenarioResults, scenarioData, caught,
                reported, testStatus, testResults>>

\* what validateSearchResults, navigateToSearchEngine and executeSearch leave alone
frameVars == <<sessionVars, extractVars, captureVars, runnerVars>>

----------------------------------------------------------------------------
(* Bounds *)

MaxKeywords == 3
MaxTextLen == 2
MaxResults == 3
MaxTitles == 11
MaxDescriptions == 11
MaxCalls == 1

----------------------------------------------------------------------------
(* Strings *)

Alphabet == {"a", "A", "b"}

\* String.prototype.toLowerCase, one character
ToLowerChar(c) ==
    CASE c = "A" -> "a"
      [] c = "B" -> "b"
      [] OTHER -> c

\* String.prototype.toLowerCase
toLowerCase(s) == [i \in 1..Len(s) |-> ToLowerChar(s[i])]

\* String.prototype.includes
includes(t, k) ==
    \E i \in 0..(Len(t) - Len(k)) : SubSeq(t, i + 1, i + Len(k)) = k

StringsUpTo(n) == UNION {[1..m -> Alphabet] : m \in 0..n}

\* the body texts the page may render
PageTexts == StringsUpTo(MaxTextLen)

\* the keywords a fixture may list
KeywordPool == {<<"a">>, <<"A">>, <<"a", "b">>}

KeywordLists == UNION {[1..m -> KeywordPool] : m \in 0..MaxKeywords}

\* the minResultCount values a caller passes (3 is the declared default)
MinResultCounts == {0, 1, 3}

----------------------------------------------------------------------------
(* Driver call log *)

\* a driver call that completed: the method, its target, the timeout option
\* passed (0 when none) and, for isVisible, the answer
Ok(call, arg, timeout) ==
    [call |-> call, arg |-> arg, ok |-> TRUE, val |-> "", timeout |-> timeout, err |-> ""]

Answered(call, arg, timeout, val) ==
    [call |-> call, arg |-> arg, ok |-> TRUE, val |-> val, timeout |-> timeout, err |-> ""]

\* a driver call that rejected with an Error whose message is err
Failed(call, arg, timeout, err) ==
    [call |-> call, arg |-> arg, ok |-> FALSE, val |-> "", timeout |-> timeout, err |-> err]

\* the messages of the errors the driver raises
DriverErrors == {"Timeout exceeded", "Target page closed"}

Logged(call) == \E i \in 1..Len(log) : log[i].call = call

Thrown(prefix, cause) == <<prefix, cause>>

NoError == <<"", "">>

NoResults == [totalResults |-> 0, keywordMatches |-> <<>>, isValid |-> FALSE]

----------------------------------------------------------------------------
(* The validator's configuration and the page's URL *)

\* this.config
config == [waitTimeout |-> 10000,
           navigationTimeout |-> 30000,
           screenshotOptions |-> [fullPage |-> TRUE, type |-> "png"]]

\* this.locators
locators == [searchBox |-> "textarea[name='q']:not([aria-hidden='true']), input[name='q']:not([aria-hidden='true'])",
             resultContainers |-> "#search, #rso, main",
             resultHeaders |-> "h3, .LC20lb, .yuRUbf h3, [data-ved] h3",
             resultDescriptions |-> ".VwiC3b, [data-sncf], .s, .lEBKkf, .st"]

RootUrl == "https://www.google.com"

\* the URLs the page can be at: the main surface, image search, another mode
Urls == {"https://www.google.com/",
         "https://www.google.com/search?tbm=isch",
         "https://www.google.com/search?tbm=nws"}

\* the mode test narrowed to image search
IncludesTbm_OnlyImages(u) == u = "https://www.google.com/search?tbm=isch"

\* currentUrl.includes('tbm=')
IncludesTbm(u) ==
    u \in {"https://www.google.com/search?tbm=isch",
           "https://www.google.com/search?tbm=nws"}

\* currentUrl.includes('tbm=isch')
IncludesTbmIsch(u) == u = "https://www.google.com/search?tbm=isch"

----------------------------------------------------------------------------
(* The result elements of the page *)

\* the value textContent() resolves to for a node without text content
Null == <<"null">>

\* x || ''
OrEmpty(x) == IF x = Null \/ x = <<>> THEN <<>> ELSE x

RECURSIVE TrimStart(_)
TrimStart(s) == IF s # <<>> /\ Head(s) = " " THEN TrimStart(Tail(s)) ELSE s

RECURSIVE TrimEnd(_)
TrimEnd(s) ==
    IF s # <<>> /\ s[Len(s)] = " " THEN TrimEnd(SubSeq(s, 1, Len(s) - 1)) ELSE s

\* String.prototype.trim
trim(s) == TrimEnd(TrimStart(s))

\* the raw texts result elements carry, in the order the page repeats them
RawTitles ==
    << <<" ", "t", " ">>, <<"t", " ", "x">>, Null, <<" ", " ">>, <<"x">>, <<>> >>

RawDescriptions ==
    << <<"d", " ">>, Null, <<" ", "d", " ", "d">>, <<>>, <<" ">> >>

Cycle(texts, shift, n) ==
    [i \in 1..n |-> texts[((i - 1 + shift) % Len(texts)) + 1]]

\* the pages extractResultData may meet: any number of title and description
\* elements, independently
Pages ==
    {[titles |-> Cycle(RawTitles, shift, t),
      descriptions |-> Cycle(RawDescriptions, shift, d)] :
        t \in 0..MaxTitles, d \in 0..MaxDescriptions, shift \in 0..1}

EmptyPage == [titles |-> <<>>, descriptions |-> <<>>]

\* the bound of the loop, 10
ResultLimit == 10

Min(a, b) == IF a < b THEN a ELSE b

\* the elements locator(selector).all() resolves to on page pg
Matching(pg, selector) ==
    IF selector = locators.resultHeaders THEN pg.titles
    ELSE IF selector = locators.resultDescriptions THEN pg.descriptions
    ELSE <<>>

\* the pages validateSearchResults may meet: few result headers, or as many as
\* the extraction limit and more
ValidatePages ==
    {pg \in Pages :
        /\ Len(pg.titles) \in (0..MaxResults) \cup {ResultLimit, MaxTitles}
        /\ Len(pg.descriptions) = Len(pg.titles)
        /\ pg.titles = Cycle(RawTitles, 0, Len(pg.titles))
        /\ pg.descriptions = Cycle(RawDescriptions, 0, Len(pg.descriptions))}

----------------------------------------------------------------------------
(* validateSearchResults *)

\* the message of the error a failed expect(...) raises
ExpectMessage == "expect(received).toBeGreaterThanOrEqual(expected)"

\* the gate written with a strict comparison
ToBeGreaterThanOrEqual_Strict(received, expected) == received > expected

\* expect(totalResults).toBeGreaterThanOrEqual(minResultCount)
ToBeGreaterThanOrEqual(received, expected) == received >= expected

\* the keyword compared without lower-casing it
IsPresent_CaseSensitive(content, keyword) == includes(content, keyword)

\* contentLower.includes(keyword.toLowerCase())
IsPresent(content, keyword) == includes(content, toLowerCase(keyword))

\* validationResults.keywordMatches[keyword] = isPresent
SetMatch(matches, keyword, present) ==
    [k \in (DOMAIN matches) \cup {keyword} |->
        IF k = keyword THEN present ELSE matches[k]]

\* Object.values(keywordMatches).filter(match => match === true).length
KeywordMatchCount(matches) == Cardinality({k \in DOMAIN matches : matches[k]})

\* Math.ceil(n / 2)
CeilHalf(n) == (n + 1) \div 2

\* the threshold written with a strict comparison
IsValid_Strict(matchCount, n) == matchCount > CeilHalf(n)

\* keywordMatchCount >= Math.ceil(expectedKeywords.length / 2)
IsValid(matchCount, n) == matchCount >= CeilHalf(n)

ValidateThrow(cause) ==
    /\ outcome' = "threw"
    /\ errorMessage' = Thrown("Result validation failed: ", cause)
    /\ pc' = "done"

CallValidate ==
    /\ op = "none"
    /\ \E kws \in KeywordLists, m \in MinResultCounts, pg \in ValidatePages :
        /\ expectedKeywords' = kws
        /\ minResultCount' = m
        /\ page' = pg
    /\ op' = "validate"
    /\ pc' = "v_locate"
    /\ validationResults' = NoResults
    /\ UNCHANGED <<outcome, errorMessage, log, contentLower, pageContent, kidx,
                   returnValue, navVars, searchVars>>
    /\ UNCHANGED <<sessionVars, extractLocals, captureVars, runnerVars>>

\* the count taken over the headers that carry text
ValidateLocate_CountsTexts ==
    /\ op = "validate" /\ pc = "v_locate"
    /\ \/ LET resultElements == Matching(page, self.locators.resultHeaders)
              withText == {i \in 1..Len(resultElements) : OrEmpty(resultElements[i]) # <<>>}
          IN /\ log' = Append(log, Ok("all", self.locators.resultHeaders, 0))
             /\ validationResults' =
                    [validationResults EXCEPT !.totalResults = Cardinality(withText)]
             /\ pc' = "v_expect"
             /\ UNCHANGED <<outcome, errorMessage>>
       \/ \E e \in DriverErrors :
            /\ log' = Append(log, Failed("all", self.locators.resultHeaders, 0, e))
            /\ ValidateThrow(e)
            /\ UNCHANGED validationResults
    /\ UNCHANGED <<op, expectedKeywords, minResultCount, contentLower, pageContent,
                   kidx, returnValue, navVars, searchVars>>
    /\ UNCHANGED frameVars

\* const resultElements = await locator(resultHeaders).all(); totalResults = length
ValidateLocate ==
    /\ op = "validate" /\ pc = "v_locate"
    /\ \/ LET resultElements == Matching(page, self.locators.resultHeaders)
          IN /\ log' = Append(log, Ok("all", self.locators.resultHeaders, 0))
             /\ validationResults' =
                    [validationResults EXCEPT !.totalResults = Len(resultElements)]
             /\ pc' = "v_expect"
             /\ UNCHANGED <<outcome, errorMessage>>
       \/ \E e \in DriverErrors :
            /\ log' = Append(log, Failed("all", self.locators.resultHeaders, 0, e))
            /\ ValidateThrow(e)
            /\ UNCHANGED validationResults
    /\ UNCHANGED <<op, expectedKeywords, minResultCount, contentLower, pageContent,
                   kidx, returnValue, navVars, searchVars>>
    /\ UNCHANGED frameVars

\* expect(validationResults.totalResults).toBeGreaterThanOrEqual(minResultCount)
ValidateExpect ==
    /\ op = "validate" /\ pc = "v_expect"
    /\ IF ToBeGreaterThanOrEqual(validationResults.totalResults, minResultCount)
       THEN /\ pc' = "v_text"
            /\ UNCHANGED <<outcome, errorMessage>>
       ELSE ValidateThrow(ExpectMessage)
    /\ UNCHANGED <<op, log, validateVars, navVars, searchVars>>
    /\ UNCHANGED frameVars

\* const pageContent = await textContent('body'); contentLower = pageContent.toLowerCase()
ValidateReadText ==
    /\ op = "validate" /\ pc = "v_text"
    /\ \/ \E t \in PageTexts :
            /\ log' = Append(log, Ok("textContent", "body", 0))
            /\ pageContent' = t
            /\ contentLower' = toLowerCase(t)
            /\ kidx' = 1
            /\ pc' = "v_loop"
            /\ UNCHANGED <<outcome, errorMessage>>
       \/ \E e \in DriverErrors :
            /\ log' = Append(log, Failed("textContent", "body", 0, e))
            /\ ValidateThrow(e)
            /\ UNCHANGED <<pageContent, contentLower, kidx>>
    /\ UNCHANGED <<op, expectedKeywords, minResultCount, validationResults,
                   returnValue, navVars, searchVars>>
    /\ UNCHANGED frameVars

\* the iteration with the lower-cased keyword written back into the list
ValidateKeyword_LowersInPlace ==
    /\ op = "validate" /\ pc = "v_loop"
    /\ kidx <= Len(expectedKeywords)
    /\ LET keyword == expectedKeywords[kidx]
           isPresent == IsPresent(contentLower, keyword)
       IN /\ validationResults' =
                [validationResults EXCEPT
                    !.keywordMatches = SetMatch(@, keyword, isPresent)]
          /\ expectedKeywords' = [expectedKeywords EXCEPT ![kidx] = toLowerCase(keyword)]
    /\ kidx' = kidx + 1
    /\ UNCHANGED <<op, pc, outcome, errorMessage, log, minResultCount, contentLower,
                   pageContent, returnValue, navVars, searchVars>>
    /\ UNCHANGED frameVars

\* one iteration of: for (const keyword of expectedKeywords) { ... }
ValidateKeyword ==
    /\ op = "validate" /\ pc = "v_loop"
    /\ kidx <= Len(expectedKeywords)
    /\ LET keyword == expectedKeywords[kidx]
           isPresent == IsPresent(contentLower, keyword)
       IN validationResults' =
            [validationResults EXCEPT
                !.keywordMatches = SetMatch(@, keyword, isPresent)]
    /\ kidx' = kidx + 1
    /\ UNCHANGED <<op, pc, outcome, errorMessage, log, expectedKeywords,
                   minResultCount, contentLower, pageContent, returnValue,
                   navVars, searchVars>>
    /\ UNCHANGED frameVars

\* the statements after the loop: keywordMatchCount, isValid, return
ValidateReturn ==
    /\ op = "validate" /\ pc = "v_loop"
    /\ kidx > Len(expectedKeywords)
    /\ LET keywordMatchCount == KeywordMatchCount(validationResults.keywordMatches)
           final == [validationResults EXCEPT
                        !.isValid = IsValid(keywordMatchCount, Len(expectedKeywords))]
       IN /\ validationResults' = final
          /\ returnValue' = final
    /\ outcome' = "returned"
    /\ pc' = "done"
    /\ UNCHANGED <<op, errorMessage, log, expectedKeywords, minResultCount,
                   contentLower, pageContent, kidx, navVars, searchVars>>
    /\ UNCHANGED frameVars

----------------------------------------------------------------------------
(* navigateToSearchEngine, _handleConsentDialogs, _ensureMainSearchPage *)

consentSelectors ==
    << "button:has-text('Accept all')",
       "button:has-text('I agree')",
       "button:has-text('Accept')",
       "[id*='accept'], [class*='accept']" >>

allTab == "a[data-ved]:has-text('All'), a:has-text('All')"

\* a catch block that logs the error and lets the method return
NavigateThrow_LogAndReturn(cause) ==
    /\ outcome' = "returned"
    /\ errorMessage' = NoError
    /\ pc' = "done"

\* catch (error) { throw new Error(`Navigation failed: ${error.message}`) }
NavigateThrow(cause) ==
    /\ outcome' = "threw"
    /\ errorMessage' = Thrown("Navigation failed: ", cause)
    /\ pc' = "done"

CallNavigate ==
    /\ op = "none"
    /\ op' = "navigate"
    /\ pc' = "n_goto"
    /\ UNCHANGED <<outcome, errorMessage, log, validateVars, navVars, searchVars>>
    /\ UNCHANGED frameVars

\* await goto(searchEngineUrl, { waitUntil, timeout: config.navigationTimeout })
NavigateGoto ==
    /\ op = "navigate" /\ pc = "n_goto"
    /\ \/ \E u \in Urls :
            /\ log' = Append(log, Ok("goto", "searchEngineUrl", self.config.navigationTimeout))
            /\ url' = u
            /\ pc' = "n_settle"
            /\ UNCHANGED <<outcome, errorMessage>>
       \/ \E e \in DriverErrors :
            /\ log' = Append(log, Failed("goto", "searchEngineUrl", self.config.navigationTimeout, e))
            /\ NavigateThrow(e)
            /\ UNCHANGED url
    /\ UNCHANGED <<op, cidx, validateVars, searchVars>>
    /\ UNCHANGED frameVars

\* await waitForTimeout(2000)
NavigateSettle ==
    /\ op = "navigate" /\ pc = "n_settle"
    /\ \/ /\ log' = Append(log, Ok("waitForTimeout", "page", 2000))
          /\ cidx' = 1
          /\ pc' = "c_probe"
          /\ UNCHANGED <<outcome, errorMessage>>
       \/ \E e \in DriverErrors :
            /\ log' = Append(log, Failed("waitForTimeout", "page", 2000, e))
            /\ NavigateThrow(e)
            /\ UNCHANGED cidx
    /\ UNCHANGED <<op, url, validateVars, searchVars>>
    /\ UNCHANGED frameVars

\* a loop that probes on without ever running out of candidates
ConsentGoto_Unbounded(i) ==
    /\ cidx' = ((i - 1) % Len(consentSelectors)) + 1
    /\ pc' = "c_probe"
    /\ UNCHANGED <<outcome, errorMessage>>

\* the for-of loop of _handleConsentDialogs moves to selector i, or ends and
\* navigateToSearchEngine goes on to _ensureMainSearchPage
ConsentGoto(i) ==
    /\ cidx' = i
    /\ pc' = IF i <= Len(consentSelectors) THEN "c_probe" ELSE "e_url"
    /\ UNCHANGED <<outcome, errorMessage>>

\* the loop body without its try/catch: the error reaches the caller's catch
ConsentCatch_Rethrow(error) ==
    /\ NavigateThrow(error)
    /\ UNCHANGED cidx

\* the catch block that tries the same candidate again
ConsentCatch_Retry(error) == ConsentGoto(cidx)

\* catch (error) { continue; }
ConsentCatch(error) == ConsentGoto(cidx + 1)

\* the loop body without its break
ConsentBreak_Missing == ConsentGoto(cidx + 1)

\* break
ConsentBreak == ConsentGoto(Len(consentSelectors) + 1)

\* if (await element.isVisible({ timeout: 2000 }))
ConsentProbe ==
    /\ op = "navigate" /\ pc = "c_probe"
    /\ \/ /\ log' = Append(log, Answered("isVisible", consentSelectors[cidx], 2000, "visible"))
          /\ pc' = "c_click"
          /\ UNCHANGED <<cidx, outcome, errorMessage>>
       \/ /\ log' = Append(log, Answered("isVisible", consentSelectors[cidx], 2000, "hidden"))
          /\ ConsentGoto(cidx + 1)
       \/ \E e \in DriverErrors :
            /\ log' = Append(log, Failed("isVisible", consentSelectors[cidx], 2000, e))
            /\ ConsentCatch(e)
    /\ UNCHANGED <<op, url, validateVars, searchVars>>
    /\ UNCHANGED frameVars

\* await element.click()
ConsentClick ==
    /\ op = "navigate" /\ pc = "c_click"
    /\ \/ /\ log' = Append(log, Ok("click", consentSelectors[cidx], 0))
          /\ pc' = "c_settle"
          /\ UNCHANGED <<cidx, outcome, errorMessage>>
       \/ \E e \in DriverErrors :
            /\ log' = Append(log, Failed("click", consentSelectors[cidx], 0, e))
            /\ ConsentCatch(e)
    /\ UNCHANGED <<op, url, validateVars, searchVars>>
    /\ UNCHANGED frameVars

\* await waitForTimeout(1000); break
ConsentSettle ==
    /\ op = "navigate" /\ pc = "c_settle"
    /\ \/ /\ log' = Append(log, Ok("waitForTimeout", "consent", 1000))
          /\ ConsentBreak
       \/ \E e \in DriverErrors :
            /\ log' = Append(log, Failed("waitForTimeout", "consent", 1000, e))
            /\ ConsentCatch(e)
    /\ UNCHANGED <<op, url, validateVars, searchVars>>
    /\ UNCHANGED frameVars

\* the step without its try/catch: the error reaches the caller's catch
EnsureCatch_Rethrow(error) == NavigateThrow(error)

\* catch (error) { console.log('Note: Could not ensure main search page...') }
EnsureCatch(error) ==
    /\ pc' = "n_return"
    /\ UNCHANGED <<outcome, errorMessage>>

\* a statement of the try block completed; control moves to the next one
EnsureStep(next) ==
    /\ pc' = next
    /\ UNCHANGED <<outcome, errorMessage>>

\* const currentUrl = url(); if (currentUrl.includes('tbm=')) ...
EnsureCheckUrl ==
    /\ op = "navigate" /\ pc = "e_url"
    /\ log' = Append(log, Answered("url", "page", 0, url))
    /\ EnsureStep(IF IncludesTbm(url) THEN "e_goto" ELSE "e_probe")
    /\ UNCHANGED <<op, url, cidx, validateVars, searchVars>>
    /\ UNCHANGED frameVars

\* await goto('https://www.google.com')
EnsureGoto ==
    /\ op = "navigate" /\ pc = "e_goto"
    /\ \/ /\ log' = Append(log, Ok("goto", RootUrl, 0))
          /\ url' = "https://www.google.com/"
          /\ EnsureStep("e_wait")
       \/ \E e \in DriverErrors :
            /\ log' = Append(log, Failed("goto", RootUrl, 0, e))
            /\ EnsureCatch(e)
            /\ UNCHANGED url
    /\ UNCHANGED <<op, cidx, validateVars, searchVars>>
    /\ UNCHANGED frameVars

\* await waitForTimeout(1000)
EnsureWait ==
    /\ op = "navigate" /\ pc = "e_wait"
    /\ \/ /\ log' = Append(log, Ok("waitForTimeout", "root", 1000))
          /\ EnsureStep("e_probe")
       \/ \E e \in DriverErrors :
            /\ log' = Append(log, Failed("waitForTimeout", "root", 1000, e))
            /\ EnsureCatch(e)
    /\ UNCHANGED <<op, url, cidx, validateVars, searchVars>>
    /\ UNCHANGED frameVars

\* if (await allTab.isVisible({ timeout: 2000 }))
EnsureProbe ==
    /\ op = "navigate" /\ pc = "e_probe"
    /\ \/ /\ log' = Append(log, Answered("isVisible", allTab, 2000, "visible"))
          /\ EnsureStep("e_click")
       \/ /\ log' = Append(log, Answered("isVisible", allTab, 2000, "hidden"))
          /\ EnsureStep("n_return")
       \/ \E e \in DriverErrors :
            /\ log' = Append(log, Failed("isVisible", allTab, 2000, e))
            /\ EnsureCatch(e)
    /\ UNCHANGED <<op, url, cidx, validateVars, searchVars>>
    /\ UNCHANGED frameVars

\* await allTab.click()
EnsureClick ==
    /\ op = "navigate" /\ pc = "e_click"
    /\ \/ \E u \in Urls :
            /\ log' = Append(log, Ok("click", allTab, 0))
            /\ url' = u
            /\ EnsureStep("e_settle")
       \/ \E e \in DriverErrors :
            /\ log' = Append(log, Failed("click", allTab, 0, e))
            /\ EnsureCatch(e)
            /\ UNCHANGED url
    /\ UNCHANGED <<op, cidx, validateVars, searchVars>>
    /\ UNCHANGED frameVars

\* await waitForTimeout(1000)
EnsureSettle ==
    /\ op = "navigate" /\ pc = "e_settle"
    /\ \/ /\ log' = Append(log, Ok("waitForTimeout", "allTab", 1000))
          /\ EnsureStep("n_return")
       \/ \E e \in DriverErrors :
            /\ log' = Append(log, Failed("waitForTimeout", "allTab", 1000, e))
            /\ EnsureCatch(e)
    /\ UNCHANGED <<op, url, cidx, validateVars, searchVars>>
    /\ UNCHANGED frameVars

\* console.log(`Successfully navigated to: ...`); the method returns
NavigateReturn ==
    /\ op = "navigate" /\ pc = "n_return"
    /\ outcome' = "returned"
    /\ pc' = "done"
    /\ UNCHANGED <<op, errorMessage, log, validateVars, navVars, searchVars>>
    /\ UNCHANGED frameVars

----------------------------------------------------------------------------
(* executeSearch *)

\* const searchInput = locator('textarea[name="q"]').first()
searchInput == "textarea[name='q']"

\* the query terms a fixture may carry
SearchTerms == {"ftira", "valletta"}

NoInputs == [textarea |-> "absent", input |-> "absent"]

\* the query box a page renders: a textarea[name="q"] that is visible, hidden
\* (aria-hidden or not displayed) or absent, and an input[name="q"] likewise
QueryInputForms == [textarea : {"visible", "hidden", "absent"}, input : {"visible", "absent"}]

\* some element matching locators.searchBox is visible
SearchBoxVisible(form) == form.textarea = "visible" \/ form.input = "visible"

\* the first element matching 'textarea[name="q"]' is visible
SearchInputVisible(form) == form.textarea = "visible"

\* what the query input may hold when executeSearch is called
PriorInputs == {"", "old query"}

\* the catch block with the prefix of navigateToSearchEngine
SearchThrow_NavigationPrefix(cause) ==
    /\ outcome' = "threw"
    /\ errorMessage' = Thrown("Navigation failed: ", cause)
    /\ pc' = "done"

\* catch (error) { throw new Error(`Search execution failed: ${error.message}`) }
SearchThrow(cause) ==
    /\ outcome' = "threw"
    /\ errorMessage' = Thrown("Search execution failed: ", cause)
    /\ pc' = "done"

CallSearch ==
    /\ op = "none"
    /\ \E term \in SearchTerms, prior \in PriorInputs, u \in Urls, form \in QueryInputForms :
        /\ searchTerm' = term
        /\ inputValue' = prior
        /\ url' = u
        /\ queryInputs' = form
    /\ op' = "search"
    /\ pc' = "s_wait"
    /\ UNCHANGED <<outcome, errorMessage, log, validateVars, cidx>>
    /\ UNCHANGED frameVars

\* the input wait with its rejection ignored
SearchWaitInput_IgnoresTimeout ==
    /\ op = "search" /\ pc = "s_wait"
    /\ \/ /\ SearchBoxVisible(queryInputs)
          /\ log' = Append(log, Ok("waitForSelector", self.locators.searchBox, 10000))
       \/ \E e \in DriverErrors :
            log' = Append(log, Failed("waitForSelector", self.locators.searchBox, 10000, e))
    /\ pc' = "s_url"
    /\ UNCHANGED <<op, outcome, errorMessage, validateVars, navVars, searchVars>>
    /\ UNCHANGED frameVars

\* await waitForSelector(locators.searchBox, { timeout: 10000, state: 'visible' })
SearchWaitInput ==
    /\ op = "search" /\ pc = "s_wait"
    /\ \/ /\ SearchBoxVisible(queryInputs)
          /\ log' = Append(log, Ok("waitForSelector", self.locators.searchBox, 10000))
          /\ pc' = "s_url"
          /\ UNCHANGED <<outcome, errorMessage>>
       \/ \E e \in DriverErrors :
            /\ log' = Append(log, Failed("waitForSelector", self.locators.searchBox, 10000, e))
            /\ SearchThrow(e)
    /\ UNCHANGED <<op, validateVars, navVars, searchVars>>
    /\ UNCHANGED frameVars

\* const currentUrl = url(); if (currentUrl.includes('tbm=isch')) ...
SearchCheckUrl ==
    /\ op = "search" /\ pc = "s_url"
    /\ log' = Append(log, Answered("url", "page", 0, url))
    /\ pc' = IF IncludesTbmIsch(url) THEN "s_goto" ELSE "s_click"
    /\ UNCHANGED <<op, outcome, errorMessage, validateVars, navVars, searchVars>>
    /\ UNCHANGED frameVars

\* await goto('https://www.google.com')
SearchGoto ==
    /\ op = "search" /\ pc = "s_goto"
    /\ \/ \E form \in QueryInputForms :
            /\ log' = Append(log, Ok("goto", RootUrl, 0))
            /\ url' = "https://www.google.com/"
            /\ inputValue' = ""
            /\ queryInputs' = form
            /\ pc' = "s_rewait"
            /\ UNCHANGED <<outcome, errorMessage>>
       \/ \E e \in DriverErrors :
            /\ log' = Append(log, Failed("goto", RootUrl, 0, e))
            /\ SearchThrow(e)
            /\ UNCHANGED <<url, inputValue, queryInputs>>
    /\ UNCHANGED <<op, validateVars, cidx, searchTerm>>
    /\ UNCHANGED frameVars

\* await waitForSelector('textarea[name="q"]', { timeout: 5000 })
SearchRewait ==
    /\ op = "search" /\ pc = "s_rewait"
    /\ \/ /\ SearchInputVisible(queryInputs)
          /\ log' = Append(log, Ok("waitForSelector", searchInput, 5000))
          /\ pc' = "s_click"
          /\ UNCHANGED <<outcome, errorMessage>>
       \/ \E e \in DriverErrors :
            /\ log' = Append(log, Failed("waitForSelector", searchInput, 5000, e))
            /\ SearchThrow(e)
    /\ UNCHANGED <<op, validateVars, navVars, searchVars>>
    /\ UNCHANGED frameVars

\* the click followed directly by the fill, the clear left out
SearchClick_ThenFill ==
    /\ op = "search" /\ pc = "s_click"
    /\ \/ /\ SearchInputVisible(queryInputs)
          /\ log' = Append(log, Ok("click", searchInput, 0))
          /\ pc' = "s_fill"
          /\ UNCHANGED <<outcome, errorMessage>>
       \/ \E e \in DriverErrors :
            /\ log' = Append(log, Failed("click", searchInput, 0, e))
            /\ SearchThrow(e)
    /\ UNCHANGED <<op, validateVars, navVars, searchVars>>
    /\ UNCHANGED frameVars

\* await searchInput.click()
SearchClick ==
    /\ op = "search" /\ pc = "s_click"
    /\ \/ /\ SearchInputVisible(queryInputs)
          /\ log' = Append(log, Ok("click", searchInput, 0))
          /\ pc' = "s_clear"
          /\ UNCHANGED <<outcome, errorMessage>>
       \/ \E e \in DriverErrors :
            /\ log' = Append(log, Failed("click", searchInput, 0, e))
            /\ SearchThrow(e)
    /\ UNCHANGED <<op, validateVars, navVars, searchVars>>
    /\ UNCHANGED frameVars

\* await searchInput.clear()
SearchClear ==
    /\ op = "search" /\ pc = "s_clear"
    /\ \/ /\ log' = Append(log, Ok("clear", searchInput, 0))
          /\ inputValue' = ""
          /\ pc' = "s_fill"
          /\ UNCHANGED <<outcome, errorMessage>>
       \/ \E e \in DriverErrors :
            /\ log' = Append(log, Failed("clear", searchInput, 0, e))
            /\ SearchThrow(e)
            /\ UNCHANGED inputValue
    /\ UNCHANGED <<op, validateVars, navVars, searchTerm, queryInputs>>
    /\ UNCHANGED frameVars

\* await searchInput.fill(searchTerm): the element's value becomes searchTerm
SearchFill ==
    /\ op = "search" /\ pc = "s_fill"
    /\ \/ /\ log' = Append(log, Answered("fill", searchInput, 0, searchTerm))
          /\ inputValue' = searchTerm
          /\ pc' = "s_press"
          /\ UNCHANGED <<outcome, errorMessage>>
       \/ \E e \in DriverErrors :
            /\ log' = Append(log, Failed("fill", searchInput, 0, e))
            /\ SearchThrow(e)
            /\ UNCHANGED inputValue
    /\ UNCHANGED <<op, validateVars, navVars, searchTerm, queryInputs>>
    /\ UNCHANGED frameVars

\* await searchInput.press('Enter')
SearchPress ==
    /\ op = "search" /\ pc = "s_press"
    /\ \/ /\ log' = Append(log, Answered("press", searchInput, 0, "Enter"))
          /\ pc' = "s_results"
          /\ UNCHANGED <<outcome, errorMessage>>
       \/ \E e \in DriverErrors :
            /\ log' = Append(log, Failed("press", searchInput, 0, e))
            /\ SearchThrow(e)
    /\ UNCHANGED <<op, validateVars, navVars, searchVars>>
    /\ UNCHANGED frameVars

\* the result wait whose rejection is taken for an empty result
SearchWaitResults_SilentEmpty ==
    /\ op = "search" /\ pc = "s_results"
    /\ \/ log' = Append(log, Ok("waitForSelector", self.locators.resultContainers, self.config.waitTimeout))
       \/ \E e \in DriverErrors :
            log' = Append(log, Failed("waitForSelector", self.locators.resultContainers, self.config.waitTimeout, e))
    /\ outcome' = "returned"
    /\ pc' = "done"
    /\ UNCHANGED <<op, errorMessage, validateVars, navVars, searchVars>>
    /\ UNCHANGED frameVars

\* await waitForSelector(locators.resultContainers, { timeout: config.waitTimeout })
\* and, when it resolves, console.log(...) and the method returns
SearchWaitResults ==
    /\ op = "search" /\ pc = "s_results"
    /\ \/ /\ log' = Append(log, Ok("waitForSelector", self.locators.resultContainers, self.config.waitTimeout))
          /\ outcome' = "returned"
          /\ pc' = "done"
          /\ UNCHANGED errorMessage
       \/ \E e \in DriverErrors :
            /\ log' = Append(log, Failed("waitForSelector", self.locators.resultContainers, self.config.waitTimeout, e))
            /\ SearchThrow(e)
    /\ UNCHANGED <<op, validateVars, navVars, searchVars>>
    /\ UNCHANGED frameVars

----------------------------------------------------------------------------
(* extractResultData *)

\* the loop without its limit
LoopBound_NoLimit(n) == n

\* Math.min(resultTitles.length, 10)
LoopBound(n) == Min(n, ResultLimit)

\* resultData.push({ position: i + 1, title: titleText.trim(), description: descriptionText.trim() })
Push(data, i, title, description) ==
    Append(data, [position |-> i + 1, title |-> trim(title), description |-> trim(description)])

\* the catch block without its return: the error goes to the caller
ExtractCatch_Rethrow(error) ==
    /\ outcome' = "threw"
    /\ errorMessage' = Thrown("", error)
    /\ pc' = "done"
    /\ UNCHANGED returnedData

\* catch (error) { console.warn(...); return resultData; }
ExtractCatch(error) ==
    /\ returnedData' = resultData
    /\ outcome' = "returned"
    /\ pc' = "done"
    /\ UNCHANGED errorMessage

\* a statement of the try block completed; control moves on
ExtractStep(next) ==
    /\ pc' = next
    /\ UNCHANGED <<outcome, errorMessage, returnedData>>

CallExtract ==
    /\ op = "none"
    /\ \E pg \in Pages : page' = pg
    /\ op' = "extract"
    /\ pc' = "x_titles"
    /\ resultData' = <<>>
    /\ UNCHANGED <<outcome, errorMessage, log, resultTitles, resultDescriptions,
                   eidx, titleText, returnedData>>
    /\ UNCHANGED <<validateVars, navVars, searchVars, sessionVars, captureVars, runnerVars>>

\* const resultTitles = await locator(locators.resultHeaders).all()
ExtractLocateTitles ==
    /\ op = "extract" /\ pc = "x_titles"
    /\ \/ /\ log' = Append(log, Ok("all", self.locators.resultHeaders, 0))
          /\ resultTitles' = Len(Matching(page, self.locators.resultHeaders))
          /\ ExtractStep("x_descriptions")
       \/ \E e \in DriverErrors :
            /\ log' = Append(log, Failed("all", self.locators.resultHeaders, 0, e))
            /\ ExtractCatch(e)
            /\ UNCHANGED resultTitles
    /\ UNCHANGED <<op, page, resultDescriptions, resultData, eidx, titleText>>
    /\ UNCHANGED <<validateVars, navVars, searchVars, sessionVars, captureVars, runnerVars>>

\* const resultDescriptions = await locator(locators.resultDescriptions).all(); let i = 0
ExtractLocateDescriptions ==
    /\ op = "extract" /\ pc = "x_descriptions"
    /\ \/ /\ log' = Append(log, Ok("all", self.locators.resultDescriptions, 0))
          /\ resultDescriptions' = Len(Matching(page, self.locators.resultDescriptions))
          /\ eidx' = 0
          /\ ExtractStep("x_loop")
       \/ \E e \in DriverErrors :
            /\ log' = Append(log, Failed("all", self.locators.resultDescriptions, 0, e))
            /\ ExtractCatch(e)
            /\ UNCHANGED <<resultDescriptions, eidx>>
    /\ UNCHANGED <<op, page, resultTitles, resultData, titleText>>
    /\ UNCHANGED <<validateVars, navVars, searchVars, sessionVars, captureVars, runnerVars>>

\* i < Math.min(...): const titleText = await resultTitles[i].textContent() || '';
\* when i >= resultDescriptions.length the description is '' and the entry is pushed
ExtractReadTitle ==
    /\ op = "extract" /\ pc = "x_loop"
    /\ eidx < LoopBound(resultTitles)
    /\ \/ /\ log' = Append(log, Ok("textContent", "resultTitles[i]", 0))
          /\ titleText' = OrEmpty(page.titles[eidx + 1])
          /\ IF eidx < resultDescriptions
             THEN /\ ExtractStep("x_description")
                  /\ UNCHANGED <<resultData, eidx>>
             ELSE /\ resultData' = Push(resultData, eidx, titleText', <<>>)
                  /\ eidx' = eidx + 1
                  /\ ExtractStep("x_loop")
       \/ \E e \in DriverErrors :
            /\ log' = Append(log, Failed("textContent", "resultTitles[i]", 0, e))
            /\ ExtractCatch(e)
            /\ UNCHANGED <<titleText, resultData, eidx>>
    /\ UNCHANGED <<op, page, resultTitles, resultDescriptions>>
    /\ UNCHANGED <<validateVars, navVars, searchVars, sessionVars, captureVars, runnerVars>>

\* await resultDescriptions[i].textContent() || ''; resultData.push(...); i++
ExtractReadDescription ==
    /\ op = "extract" /\ pc = "x_description"
    /\ \/ /\ log' = Append(log, Ok("textContent", "resultDescriptions[i]", 0))
          /\ resultData' =
                Push(resultData, eidx, titleText, OrEmpty(page.descriptions[eidx + 1]))
          /\ eidx' = eidx + 1
          /\ ExtractStep("x_loop")
       \/ \E e \in DriverErrors :
            /\ log' = Append(log, Failed("textContent", "resultDescriptions[i]", 0, e))
            /\ ExtractCatch(e)
            /\ UNCHANGED <<resultData, eidx>>
    /\ UNCHANGED <<op, page, resultTitles, resultDescriptions, titleText>>
    /\ UNCHANGED <<validateVars, navVars, searchVars, sessionVars, captureVars, runnerVars>>

\* the loop ends: console.log(...); return resultData
ExtractReturn ==
    /\ op = "extract" /\ pc = "x_loop"
    /\ ~(eidx < LoopBound(resultTitles))
    /\ returnedData' = resultData
    /\ outcome' = "returned"
    /\ pc' = "done"
    /\ UNCHANGED <<op, errorMessage, log, page, resultTitles, resultDescriptions,
                   resultData, eidx, titleText>>
    /\ UNCHANGED <<validateVars, navVars, searchVars, sessionVars, captureVars, runnerVars>>

\* the caller goes from a returned validateSearchResults straight on to
\* extractResultData, the page unchanged in between
ExtractAfterValidate ==
    /\ op = "validate" /\ pc = "done" /\ outcome = "returned"
    /\ op' = "extract"
    /\ pc' = "x_titles"
    /\ outcome' = "running"
    /\ resultData' = <<>>
    /\ UNCHANGED <<errorMessage, log, page, resultTitles, resultDescriptions,
                   eidx, titleText, returnedData>>
    /\ UNCHANGED <<validateVars, navVars, searchVars, sessionVars, captureVars, runnerVars>>

----------------------------------------------------------------------------
(* captureEvidence *)

NoCapture == [name |-> "", folder |-> ""]

NoTime == [h |-> 0, m |-> 0, s |-> 0, ms |-> 0]

\* the instants new Date() may read (time of day, UTC)
Times == [h : {10}, m : {0, 59}, s : {0, 59}, ms : {0, 7, 999}]

\* the screenshot names and folders the callers pass ('evidence' is the default)
CaptureNames == {"initial_state", "failure_ftira"}

CaptureFolders == {"evidence", "evidence/screenshots"}

Digits == <<"0", "1", "2", "3", "4", "5", "6", "7", "8", "9">>

Pad2(n) == <<Digits[(n \div 10) + 1], Digits[(n % 10) + 1]>>

Pad3(n) == <<Digits[(n \div 100) + 1]>> \o Pad2(n % 100)

\* Date.prototype.toISOString, as a sequence of characters after the date
toISOString(t) ==
    <<"2026-11-05", "T">> \o Pad2(t.h) \o <<":">> \o Pad2(t.m) \o <<":">>
        \o Pad2(t.s) \o <<".">> \o Pad3(t.ms) \o <<"Z">>

\* .replace(/[:.]/g, '-')
ReplaceSeparators(str) ==
    [i \in 1..Len(str) |-> IF str[i] \in {":", "."} THEN "-" ELSE str[i]]

\* a timestamp cut to whole seconds
Timestamp_Seconds(t) == ReplaceSeparators(SubSeq(toISOString(t), 1, 10))

\* const timestamp = new Date().toISOString().replace(/[:.]/g, '-')
Timestamp(t) == ReplaceSeparators(toISOString(t))

\* `${screenshotName}_${timestamp}.png`
FileName(name, timestamp) == <<name, "_">> \o timestamp \o <<".png">>

\* `${evidenceFolder}/${fileName}`
FilePath(folder, fileName) == <<folder, "/">> \o fileName

CallCapture ==
    /\ op = "none"
    /\ \E name \in CaptureNames, folder \in CaptureFolders, t \in Times :
        /\ captureArgs' = [name |-> name, folder |-> folder]
        /\ clock' = t
        /\ filePath' = FilePath(folder, FileName(name, Timestamp(t)))
    /\ op' = "capture"
    /\ pc' = "p_screenshot"
    /\ UNCHANGED <<outcome, errorMessage, log, returnedPath, screenshots>>
    /\ UNCHANGED <<validateVars, navVars, searchVars, sessionVars, extractVars, runnerVars>>

\* await screenshot({ path: filePath, ...config.screenshotOptions });
\* console.log(...); return filePath.  A rejection is not caught.
CaptureScreenshot ==
    /\ op = "capture" /\ pc = "p_screenshot"
    /\ \/ /\ log' = Append(log, Ok("screenshot", "filePath", 0))
          /\ screenshots' = Append(screenshots,
                [path |-> filePath, options |-> self.config.screenshotOptions])
          /\ returnedPath' = filePath
          /\ outcome' = "returned"
          /\ UNCHANGED errorMessage
       \/ \E e \in DriverErrors :
            /\ log' = Append(log, Failed("screenshot", "filePath", 0, e))
            /\ outcome' = "threw"
            /\ errorMessage' = Thrown("", e)
            /\ UNCHANGED <<returnedPath, screenshots>>
    /\ pc' = "done"
    /\ UNCHANGED <<op, captureArgs, clock, filePath>>
    /\ UNCHANGED <<validateVars, navVars, searchVars, sessionVars, extractVars, runnerVars>>

----------------------------------------------------------------------------
(* The scenario runner (tests/search-validation.spec.js) *)

\* The runner awaits the validator's methods; here each call is summarised
\* by the outcomes the method's own specification produces.

NoQuery == [term |-> <<>>, expectedKeywords |-> <<>>]

\* the query terms of the fixtures, as characters
QueryTerms == {<<"b">>, <<"A", " ", "b">>}

\* testConfig.testData.searchQueries
Fixtures == [term : QueryTerms, expectedKeywords : KeywordLists]

\* the errors navigateToSearchEngine throws
NavigateErrors == {Thrown("Navigation failed: ", e) : e \in DriverErrors}

\* the errors executeSearch throws
SearchErrors == {Thrown("Search execution failed: ", e) : e \in DriverErrors}

\* the errors captureEvidence and page.screenshot let through
ScreenshotErrors == {Thrown("", e) : e \in DriverErrors}

\* the keywordMatches object after the loop over the first n keywords
RECURSIVE MatchesAfter(_, _, _)
MatchesAfter(kws, n, content) ==
    IF n = 0 THEN <<>>
    ELSE SetMatch(MatchesAfter(kws, n - 1, content), kws[n],
                  IsPresent(toLowerCase(content), kws[n]))

\* what validateSearchResults returns for a page with `total` result headers
\* and body text `content`
ValidationResultOf(kws, total, content) ==
    LET matches == MatchesAfter(kws, Len(kws), content)
    IN [totalResults |-> total,
        keywordMatches |-> matches,
        isValid |-> IsValid(KeywordMatchCount(matches), Len(kws))]

\* the texts an extracted title or description may hold
ExtractedTexts == {<<>>, <<"A">>, <<"b">>}

\* the arrays extractResultData may return
ExtractedData ==
    {<<>>} \cup {<<[position |-> 1, title |-> t, description |-> d]>> :
                    t \in ExtractedTexts, d \in ExtractedTexts}

\* String.prototype.split(' ')
RECURSIVE split(_)
split(s) ==
    IF \A i \in 1..Len(s) : s[i] # " " THEN <<s>>
    ELSE LET i == CHOOSE i \in 1..Len(s) :
                    s[i] = " " /\ \A j \in 1..(i - 1) : s[j] # " "
         IN <<SubSeq(s, 1, i - 1)>> \o split(SubSeq(s, i + 1, Len(s)))

\* a JavaScript number that is a quotient of two counts, or NaN
Quotient(n, d) ==
    IF d = 0 /\ n = 0 THEN [nan |-> TRUE, num |-> 0, den |-> 1]
    ELSE [nan |-> FALSE, num |-> n, den |-> d]

\* Object.values(keywordMatches).filter(match => match === true).length
\*     / queryData.expectedKeywords.length
KeywordSuccessRate(matches, kws) == Quotient(KeywordMatchCount(matches), Len(kws))

\* expect(keywordSuccessRate).toBeGreaterThanOrEqual(0.5); NaN >= 0.5 is false
AtLeastHalf(rate) == ~rate.nan /\ 2 * rate.num >= rate.den

\* searchTermsInResults
SearchTermsInResults(data, term, kws) ==
    LET searchWords == split(toLowerCase(term))
    IN \E r \in 1..Len(data) :
        LET titleText_ == toLowerCase(data[r].title)
            descriptionText == toLowerCase(data[r].description)
        IN \/ \E w \in 1..Len(searchWords) :
                \/ includes(titleText_, searchWords[w])
                \/ includes(descriptionText, searchWords[w])
           \/ \E k \in 1..Len(kws) :
                \/ includes(titleText_, toLowerCase(kws[k]))
                \/ includes(descriptionText, toLowerCase(kws[k]))

\* a statement of the try block threw: control enters the catch block
TestThrow(error) ==
    /\ caught' = error
    /\ rpc' = "r_catch"

\* a hook or the test body ended with an error: the framework records it
Report(error) ==
    /\ reported' = Append(reported, error)
    /\ testStatus' = "failed"

\* what the runner's own statements leave alone: the validator's calls
coreVars == <<pc, outcome, errorMessage, log, validateVars, navVars, searchVars,
              sessionVars, extractVars, captureVars>>

\* the test generated for one fixture starts: searchValidator is constructed
StartScenario ==
    /\ op = "none" /\ rpc = "r_idle"
    /\ \E q \in Fixtures, m \in MinResultCounts :
        /\ queryData' = q
        /\ testConfig' = [minResultCount |-> m]
    /\ op' = "scenario"
    /\ rpc' = "r_navigate"
    /\ UNCHANGED <<scenarioResults, scenarioData, caught, reported, testStatus,
                   testResults, coreVars>>

\* beforeEach: await navigateToSearchEngine(...); a failure skips the test body
BeforeEachNavigate ==
    /\ op = "scenario" /\ rpc = "r_navigate"
    /\ \/ /\ rpc' = "r_initial"
          /\ UNCHANGED <<reported, testStatus>>
       \/ \E e \in NavigateErrors :
            /\ Report(e)
            /\ rpc' = "r_after"
    /\ UNCHANGED <<op, queryData, testConfig, scenarioResults, scenarioData, caught,
                   testResults, coreVars>>

\* beforeEach: await captureEvidence('initial_state', ...)
BeforeEachCapture ==
    /\ op = "scenario" /\ rpc = "r_initial"
    /\ \/ /\ rpc' = "r_search"
          /\ UNCHANGED <<reported, testStatus>>
       \/ \E e \in ScreenshotErrors :
            /\ Report(e)
            /\ rpc' = "r_after"
    /\ UNCHANGED <<op, queryData, testConfig, scenarioResults, scenarioData, caught,
                   testResults, coreVars>>

\* Phase 1: await executeSearch(queryData.term)
TestSearch ==
    /\ op = "scenario" /\ rpc = "r_search"
    /\ \/ /\ rpc' = "r_evidence"
          /\ UNCHANGED caught
       \/ \E e \in SearchErrors : TestThrow(e)
    /\ UNCHANGED <<op, queryData, testConfig, scenarioResults, scenarioData,
                   reported, testStatus, testResults, coreVars>>

\* Phase 2: const evidencePath = await captureEvidence(`test_results_...`, ...)
TestCapture ==
    /\ op = "scenario" /\ rpc = "r_evidence"
    /\ \/ /\ rpc' = "r_attach"
          /\ UNCHANGED caught
       \/ \E e \in ScreenshotErrors : TestThrow(e)
    /\ UNCHANGED <<op, queryData, testConfig, scenarioResults, scenarioData,
                   reported, testStatus, testResults, coreVars>>

\* await page.screenshot({ fullPage: true }); await testInfo.attach(...)
TestAttach ==
    /\ op = "scenario" /\ rpc = "r_attach"
    /\ \/ /\ rpc' = "r_validate"
          /\ UNCHANGED caught
       \/ \E e \in ScreenshotErrors : TestThrow(e)
    /\ UNCHANGED <<op, queryData, testConfig, scenarioResults, scenarioData,
                   reported, testStatus, testResults, coreVars>>

\* Phase 3: const validationResults = await validateSearchResults(
\*     queryData.expectedKeywords, testConfig.validation.minResultCount)
TestValidate ==
    /\ op = "scenario" /\ rpc = "r_validate"
    /\ \/ \E total \in 0..MaxResults, content \in PageTexts :
            /\ ToBeGreaterThanOrEqual(total, testConfig.minResultCount)
            /\ scenarioResults' =
                  ValidationResultOf(queryData.expectedKeywords, total, content)
            /\ rpc' = "r_extract"
            /\ UNCHANGED caught
       \/ \E total \in 0..MaxResults :
            /\ ~ToBeGreaterThanOrEqual(total, testConfig.minResultCount)
            /\ TestThrow(Thrown("Result validation failed: ", ExpectMessage))
            /\ UNCHANGED scenarioResults
       \/ \E e \in DriverErrors :
            /\ TestThrow(Thrown("Result validation failed: ", e))
            /\ UNCHANGED scenarioResults
    /\ UNCHANGED <<op, queryData, testConfig, scenarioData, reported, testStatus,
                   testResults, coreVars>>

\* Phase 4: const resultData = await extractResultData(); it never throws
TestExtract ==
    /\ op = "scenario" /\ rpc = "r_extract"
    /\ \E data \in ExtractedData : scenarioData' = data
    /\ rpc' = "r_count"
    /\ UNCHANGED <<op, queryData, testConfig, scenarioResults, caught, reported,
                   testStatus, testResults, coreVars>>

\* expect(validationResults.totalResults).toBeGreaterThanOrEqual(minResultCount)
TestAssertCount ==
    /\ op = "scenario" /\ rpc = "r_count"
    /\ IF ToBeGreaterThanOrEqual(scenarioResults.totalResults, testConfig.minResultCount)
       THEN /\ rpc' = "r_keywords"
            /\ UNCHANGED caught
       ELSE TestThrow(Thrown("", ExpectMessage))
    /\ UNCHANGED <<op, queryData, testConfig, scenarioResults, scenarioData,
                   reported, testStatus, testResults, coreVars>>

\* expect(keywordSuccessRate).toBeGreaterThanOrEqual(0.5)
TestAssertKeywords ==
    /\ op = "scenario" /\ rpc = "r_keywords"
    /\ IF AtLeastHalf(KeywordSuccessRate(scenarioResults.keywordMatches,
                                         queryData.expectedKeywords))
       THEN /\ rpc' = "r_relevance"
            /\ UNCHANGED caught
       ELSE TestThrow(Thrown("", ExpectMessage))
    /\ UNCHANGED <<op, queryData, testConfig, scenarioResults, scenarioData,
                   reported, testStatus, testResults, coreVars>>

\* expect(searchTermsInResults).toBe(true); testResults.push({ ..., status: 'PASSED' })
TestAssertRelevance ==
    /\ op = "scenario" /\ rpc = "r_relevance"
    /\ IF SearchTermsInResults(scenarioData, queryData.term, queryData.expectedKeywords)
       THEN /\ testResults' = Append(testResults,
                    [searchTerm |-> queryData.term, error |-> NoError,
                     status |-> "PASSED"])
            /\ testStatus' = "passed"
            /\ rpc' = "r_after"
            /\ UNCHANGED caught
       ELSE /\ TestThrow(Thrown("", "expect(received).toBe(expected)"))
            /\ UNCHANGED <<testResults, testStatus>>
    /\ UNCHANGED <<op, queryData, testConfig, scenarioResults, scenarioData,
                   reported, coreVars>>

\* catch (error) { console.error(...); await captureEvidence(`failure_...`, ...);
\*                 testResults.push({ ..., status: 'FAILED' }); throw error; }
TestCatch ==
    /\ op = "scenario" /\ rpc = "r_catch"
    /\ \/ /\ testResults' = Append(testResults,
                    [searchTerm |-> queryData.term, error |-> caught,
                     status |-> "FAILED"])
          /\ Report(caught)
       \/ \E e \in ScreenshotErrors :
            /\ Report(e)
            /\ UNCHANGED testResults
    /\ rpc' = "r_after"
    /\ UNCHANGED <<op, queryData, testConfig, scenarioResults, scenarioData, caught,
                   coreVars>>

\* afterEach: if (testInfo.status !== 'passed') await captureEvidence(`failure_...`, ...)
AfterEach ==
    /\ op = "scenario" /\ rpc = "r_after"
    /\ IF testStatus # "passed"
       THEN \/ UNCHANGED <<reported, testStatus>>
            \/ \E e \in ScreenshotErrors : Report(e)
       ELSE UNCHANGED <<reported, testStatus>>
    /\ rpc' = "r_done"
    /\ UNCHANGED <<op, queryData, testConfig, scenarioResults, scenarioData, caught,
                   testResults, coreVars>>

----------------------------------------------------------------------------
(* A sequence of calls on one validator *)

\* the awaited call has returned or thrown and the caller goes on: the call's
\* locals are gone, the validator object stays, and the page the next call
\* meets is again the environment's choice
Finish ==
    /\ op \in {"validate", "navigate", "search", "extract", "capture"}
    /\ pc = "done"
    /\ calls < MaxCalls
    /\ calls' = calls + 1
    /\ op' = "none"
    /\ pc' = "idle"
    /\ outcome' = "running"
    /\ errorMessage' = NoError
    /\ log' = <<>>
    /\ expectedKeywords' = <<>>
    /\ minResultCount' = 0
    /\ validationResults' = NoResults
    /\ contentLower' = <<>>
    /\ pageContent' = <<>>
    /\ kidx' = 0
    /\ returnValue' = NoResults
    /\ url' = "about:blank"
    /\ cidx' = 0
    /\ searchTerm' = ""
    /\ inputValue' = ""
    /\ queryInputs' = NoInputs
    /\ page' = EmptyPage
    /\ resultTitles' = 0
    /\ resultDescriptions' = 0
    /\ resultData' = <<>>
    /\ eidx' = 0
    /\ titleText' = <<>>
    /\ returnedData' = <<>>
    /\ captureArgs' = NoCapture
    /\ clock' = NoTime
    /\ filePath' = <<>>
    /\ returnedPath' = <<>>
    /\ screenshots' = <<>>
    /\ UNCHANGED <<self, runnerVars>>

----------------------------------------------------------------------------

Init ==
    /\ op = "none"
    /\ pc = "idle"
    /\ outcome = "running"
    /\ errorMessage = NoError
    /\ log = <<>>
    /\ expectedKeywords = <<>>
    /\ minResultCount = 0
    /\ validationResults = NoResults
    /\ contentLower = <<>>
    /\ pageContent = <<>>
    /\ kidx = 0
    /\ returnValue = NoResults
    /\ url = "about:blank"
    /\ cidx = 0
    /\ searchTerm = ""
    /\ inputValue = ""
    /\ queryInputs = NoInputs
    /\ self = [locators |-> locators, config |-> config]
    /\ calls = 0
    /\ page = EmptyPage
    /\ resultTitles = 0
    /\ resultDescriptions = 0
    /\ resultData = <<>>
    /\ eidx = 0
    /\ titleText = <<>>
    /\ returnedData = <<>>
    /\ captureArgs = NoCapture
    /\ clock = NoTime
    /\ filePath = <<>>
    /\ returnedPath = <<>>
    /\ screenshots = <<>>
    /\ rpc = "r_idle"
    /\ queryData = NoQuery
    /\ testConfig = [minResultCount |-> 0]
    /\ scenarioResults = NoResults
    /\ scenarioData = <<>>
    /\ caught = NoError
    /\ reported = <<>>
    /\ testStatus = "running"
    /\ testResults = <<>>

NextValidate ==
    \/ CallValidate
    \/ ValidateLocate
    \/ ValidateExpect
    \/ ValidateReadText
    \/ ValidateKeyword
    \/ ValidateReturn

SpecValidate == Init /\ [][NextValidate]_vars

NextNavigate ==
    \/ CallNavigate
    \/ NavigateGoto
    \/ NavigateSettle
    \/ ConsentProbe
    \/ ConsentClick
    \/ ConsentSettle
    \/ EnsureCheckUrl
    \/ EnsureGoto
    \/ EnsureWait
    \/ EnsureProbe
    \/ EnsureClick
    \/ EnsureSettle
    \/ NavigateReturn

SpecNavigate == Init /\ [][NextNavigate]_vars

NextSearch ==
    \/ CallSearch
    \/ SearchWaitInput
    \/ SearchCheckUrl
    \/ SearchGoto
    \/ SearchRewait
    \/ SearchClick
    \/ SearchClear
    \/ SearchFill
    \/ SearchPress
    \/ SearchWaitResults

SpecSearch == Init /\ [][NextSearch]_vars

NextExtract ==
    \/ CallExtract
    \/ ExtractLocateTitles
    \/ ExtractLocateDescriptions
    \/ ExtractReadTitle
    \/ ExtractReadDescription
    \/ ExtractReturn

SpecExtract == Init /\ [][NextExtract]_vars

NextCapture ==
    \/ CallCapture
    \/ CaptureScreenshot

SpecCapture == Init /\ [][NextCapture]_vars

\* one call of navigateToSearchEngine, executeSearch or validateSearchResults
NextCore ==
    \/ NextNavigate
    \/ NextSearch
    \/ NextValidate

SpecCore == Init /\ [][NextCore]_vars

\* any sequence of calls of the five public methods
NextSession ==
    \/ NextCore
    \/ NextExtract
    \/ NextCapture
    \/ Finish

SpecSession == Init /\ [][NextSession]_vars

\* one call of a core operation, each driver call answering within its timeout
NextOperation ==
    \/ NextCore
    \/ NextExtract

SpecOperationFair == Init /\ [][NextOperation]_vars /\ WF_vars(NextOperation)

\* validateSearchResults and extractResultData, alone or one after the other
\* on the same page
NextSamePage ==
    \/ NextValidate
    \/ ExtractAfterValidate
    \/ NextExtract

SpecSamePage == Init /\ [][NextSamePage]_vars

NextScenario ==
    \/ StartScenario
    \/ BeforeEachNavigate
    \/ BeforeEachCapture
    \/ TestSearch
    \/ TestCapture
    \/ TestAttach
    \/ TestValidate
    \/ TestExtract
    \/ TestAssertCount
    \/ TestAssertKeywords
    \/ TestAssertRelevance
    \/ TestCatch
    \/ AfterEach

SpecScenario == Init /\ [][NextScenario]_vars

----------------------------------------------------------------------------
(* Properties of validateSearchResults *)

\* case folding and containment, stated without the model's operators
Fold(c) ==
    IF c \in {"a", "A"} THEN "a"
    ELSE IF c \in {"b", "B"} THEN "b"
    ELSE c

OccursIgnoringCase(k, t) ==
    \E off \in 0..(Len(t) - Len(k)) :
        \A j \in 1..Len(k) : Fold(t[off + j]) = Fold(k[j])

\* the number of entries of the expectedKeywords list found in the page text
FoundCount ==
    Cardinality({i \in 1..Len(expectedKeywords) :
                    OccursIgnoringCase(expectedKeywords[i], pageContent)})

ValidateDone == op = "validate" /\ pc = "done"

DriverReadFailed == \E i \in 1..Len(log) : ~log[i].ok

HeadersCounted ==
    \E i \in 1..Len(log) : log[i].call = "all" /\ log[i].ok

GateViolated ==
    HeadersCounted /\ validationResults.totalResults < minResultCount

\* C1: whenever validateSearchResults returns, isValid is true iff the number
\* of entries of expectedKeywords (repeats and case variants each counted)
\* found in the page text is at least ceil(length of expectedKeywords / 2).
C1_IsValidIffMajorityOfList ==
    (ValidateDone /\ outcome = "returned") =>
        (returnValue.isValid <=> FoundCount >= CeilHalf(Len(expectedKeywords)))

\* C2: validateSearchResults throws iff the result-count gate is violated or
\* a driver read fails; when totalResults < minResultCount the call throws,
\* nothing is returned, the body text is never read and no keyword match is
\* computed; with minResultCount = 0 the gate never causes the failure.
C2_FailsIffGateOrDriver ==
    /\ ValidateDone =>
          /\ (outcome = "threw") <=> (GateViolated \/ DriverReadFailed)
          /\ (outcome = "returned") <=> ~(GateViolated \/ DriverReadFailed)
          /\ (outcome = "threw") => (errorMessage[2] = ExpectMessage <=> GateViolated)
    /\ (op = "validate" /\ GateViolated) =>
          /\ outcome # "returned"
          /\ returnValue = NoResults
          /\ ~Logged("textContent")
          /\ DOMAIN validationResults.keywordMatches = {}
          /\ pc \in {"v_expect", "done"}
    /\ (op = "validate" /\ minResultCount = 0) =>
          /\ ~GateViolated
          /\ errorMessage[2] # ExpectMessage

C2_Witness ==
    /\ ValidateDone
    /\ outcome = "threw"
    /\ GateViolated
    /\ errorMessage = Thrown("Result validation failed: ", ExpectMessage)
    /\ validationResults.totalResults > 0

\* C3: every recorded keywordMatches[k] is true iff lowercase(k) occurs in
\* lowercase(page text), anywhere in the body; keywords and texts that differ
\* only in letter case get the same outcome, and a returned result records
\* exactly the listed keywords.
C3_MatchIffCaseInsensitiveSubstring ==
    (op = "validate" /\ pc \in {"v_loop", "done"} /\ Logged("textContent")
        /\ ~DriverReadFailed) =>
        /\ \A k \in DOMAIN validationResults.keywordMatches :
              validationResults.keywordMatches[k] <=> OccursIgnoringCase(k, pageContent)
        /\ DOMAIN validationResults.keywordMatches =
              {expectedKeywords[i] : i \in 1..(kidx - 1)}
        /\ outcome = "returned" =>
              /\ returnValue.keywordMatches = validationResults.keywordMatches
              /\ DOMAIN returnValue.keywordMatches =
                    {expectedKeywords[i] : i \in 1..Len(expectedKeywords)}

C3_Witness ==
    /\ ValidateDone
    /\ outcome = "returned"
    /\ pageContent = <<"b", "A">>
    /\ expectedKeywords = <<<<"a">>, <<"A">>, <<"a", "b">>>>
    /\ returnValue.keywordMatches[<<"a">>]
    /\ returnValue.keywordMatches[<<"A">>]
    /\ ~returnValue.keywordMatches[<<"a", "b">>]

\* C4: with an empty expectedKeywords list and totalResults >= minResultCount
\* (and no driver failure) the call returns a result whose keywordMatches is
\* empty and whose isValid is true.
C4_EmptyKeywordsValid ==
    (ValidateDone /\ expectedKeywords = <<>> /\ ~GateViolated /\ ~DriverReadFailed) =>
        /\ outcome = "returned"
        /\ DOMAIN returnValue.keywordMatches = {}
        /\ returnValue.isValid

C4_Witness ==
    /\ ValidateDone
    /\ expectedKeywords = <<>>
    /\ outcome = "returned"
    /\ minResultCount = 3
    /\ returnValue.totalResults = 3
    /\ returnValue.isValid

----------------------------------------------------------------------------
(* Properties of navigateToSearchEngine and consent handling *)

ConsentSelectorSet == {consentSelectors[i] : i \in 1..Len(consentSelectors)}

SelectorIndex(sel) == CHOOSE i \in 1..Len(consentSelectors) : consentSelectors[i] = sel

IsConsentProbe(e) == e.call = "isVisible" /\ e.arg \in ConsentSelectorSet

IsConsentClick(e) == e.call = "click" /\ e.arg \in ConsentSelectorSet

IsConsentSettle(e) == e.call = "waitForTimeout" /\ e.arg = "consent"

IsConsentCall(e) == IsConsentProbe(e) \/ IsConsentClick(e) \/ IsConsentSettle(e)

IsEnsureCall(e) ==
    \/ e.call = "url"
    \/ e.arg \in {allTab, RootUrl, "root", "allTab"}

\* the positions of the log at which consent candidates were probed
ConsentProbes == {i \in 1..Len(log) : IsConsentProbe(log[i])}

\* candidates are probed one after the other from the first, none skipped,
\* none twice, and a click is only ever made on the candidate just found visible
ProbedInDeclaredOrder ==
    /\ \A i \in ConsentProbes :
          SelectorIndex(log[i].arg) = Cardinality({j \in ConsentProbes : j <= i})
    /\ \A i \in 1..Len(log) :
          IsConsentClick(log[i]) =>
              /\ i > 1
              /\ IsConsentProbe(log[i - 1])
              /\ log[i - 1].arg = log[i].arg
              /\ log[i - 1].val = "visible"
    /\ \A i \in 1..Len(log) :
          (IsConsentProbe(log[i]) /\ log[i].val = "visible" /\ i < Len(log)) =>
              (IsConsentClick(log[i + 1]) /\ log[i + 1].arg = log[i].arg)

NoConsentProbeOrClickAfter(i) ==
    \A j \in (i + 1)..Len(log) : ~IsConsentProbe(log[j]) /\ ~IsConsentClick(log[j])

\* C5 as claimed: candidates are probed in declared order, and once a candidate
\* was found visible and a click on it attempted (whether or not the click
\* raised an error), no later candidate is probed or clicked.
C5_StopsAfterFirstClickAttempt ==
    op = "navigate" =>
        /\ ProbedInDeclaredOrder
        /\ \A i \in 1..Len(log) :
              IsConsentClick(log[i]) => NoConsentProbeOrClickAfter(i)

\* C5 as amended: candidates are probed in declared order, and once a candidate
\* was found visible and both the click on it and the settle delay after it
\* completed without error, no later candidate is probed or clicked; a
\* candidate whose click or settle delay raised an error is followed by a
\* probe of the next candidate, if there is one.
C5_StopsAfterFirstSettledClick ==
    op = "navigate" =>
        /\ ProbedInDeclaredOrder
        /\ \A i \in 1..Len(log) :
              (IsConsentClick(log[i]) /\ log[i].ok /\ i < Len(log)) =>
                  /\ IsConsentSettle(log[i + 1])
                  /\ log[i + 1].ok => NoConsentProbeOrClickAfter(i)
        /\ \A i \in 1..Len(log) :
              (/\ IsConsentClick(log[i]) \/ IsConsentSettle(log[i])
               /\ ~log[i].ok
               /\ i < Len(log)
               /\ SelectorIndex(log[IF IsConsentClick(log[i]) THEN i ELSE i - 1].arg)
                     < Len(consentSelectors)) =>
                  IsConsentProbe(log[i + 1])

C5_Witness ==
    /\ op = "navigate" /\ pc = "done" /\ outcome = "returned"
    /\ Len(log) >= 6
    /\ log[3] = Answered("isVisible", consentSelectors[1], 2000, "hidden")
    /\ log[4] = Answered("isVisible", consentSelectors[2], 2000, "visible")
    /\ log[5] = Ok("click", consentSelectors[2], 0)
    /\ log[6] = Ok("waitForTimeout", "consent", 1000)
    /\ Cardinality(ConsentProbes) = 2

NavigateFailedAt(i) ==
    /\ i <= Len(log)
    /\ ~log[i].ok
    /\ \A j \in 1..(i - 1) : log[j].ok

\* C6: consent handling never fails: whatever probe, click and settle errors
\* occur, the loop goes on or ends, navigateToSearchEngine never throws because
\* of them and goes on to read the URL for main-surface enforcement; a click is
\* made only on a candidate found visible.
C6_ConsentNeverFails ==
    op = "navigate" =>
        /\ pc \in {"c_probe", "c_click", "c_settle", "e_url"} =>
              (outcome = "running" /\ ENABLED NextNavigate)
        /\ outcome = "threw" => \A i \in 1..Len(log) : ~IsConsentCall(log[i])
        /\ (Len(log) >= 2 /\ log[1].ok /\ log[2].ok) =>
              /\ outcome # "threw"
              /\ pc \notin {"c_probe", "c_click", "c_settle", "e_url"} => Logged("url")
        /\ (\A i \in ConsentProbes : log[i].val # "visible") =>
              \A i \in 1..Len(log) : ~IsConsentClick(log[i])

C6_Witness ==
    /\ op = "navigate" /\ pc = "done" /\ outcome = "returned"
    /\ \E i \in 1..Len(log) : IsConsentProbe(log[i]) /\ ~log[i].ok
    /\ \E i \in 1..Len(log) : IsConsentClick(log[i]) /\ ~log[i].ok
    /\ \E i \in 1..Len(log) : IsConsentSettle(log[i]) /\ ~log[i].ok
    /\ Logged("url")

\* C7: when the initial navigation or the settle delay after it fails,
\* navigateToSearchEngine does not complete normally: it throws an error whose
\* message is "Navigation failed: " followed by the cause's message, and no
\* consent handling or main-surface enforcement call is made.
C7_NavigationFailurePropagates ==
    op = "navigate" =>
        \A i \in 1..2 :
            NavigateFailedAt(i) =>
                /\ pc = "done"
                /\ outcome = "threw"
                /\ errorMessage = <<"Navigation failed: ", log[i].err>>
                /\ log[i].err \in DriverErrors
                /\ Len(log) = i
                /\ \A j \in 1..Len(log) : ~IsConsentCall(log[j]) /\ ~IsEnsureCall(log[j])

C7_Witness ==
    /\ op = "navigate" /\ pc = "done" /\ outcome = "threw"
    /\ Len(log) = 2
    /\ log[1] = Ok("goto", "searchEngineUrl", config.navigationTimeout)
    /\ log[2] = Failed("waitForTimeout", "page", 2000, "Target page closed")
    /\ errorMessage = <<"Navigation failed: ", "Target page closed">>

----------------------------------------------------------------------------
(* Properties of executeSearch *)

InputActions == {"click", "clear", "fill", "press"}

\* C8: in a successful executeSearch(term) the query input is clicked, cleared,
\* filled with term and sent Enter, in that order and once each, and only then
\* is the result container waited for, with the configured waitTimeout; clear
\* always comes before fill, and from the fill on the input holds exactly term.
C8_ClickClearFillEnterThenWait ==
    op = "search" =>
        /\ outcome = "returned" =>
              /\ Len(log) >= 5
              /\ SubSeq(log, Len(log) - 4, Len(log)) =
                    << Ok("click", searchInput, 0),
                       Ok("clear", searchInput, 0),
                       Answered("fill", searchInput, 0, searchTerm),
                       Answered("press", searchInput, 0, "Enter"),
                       Ok("waitForSelector", locators.resultContainers, config.waitTimeout) >>
              /\ \A i \in 1..(Len(log) - 5) :
                    /\ log[i].call \notin InputActions
                    /\ log[i].arg # locators.resultContainers
              /\ inputValue = searchTerm
        /\ \A i \in 1..Len(log) :
              log[i].call = "fill" =>
                  /\ i > 1
                  /\ log[i - 1] = Ok("clear", searchInput, 0)
        /\ (\E i \in 1..Len(log) : log[i].call = "fill" /\ log[i].ok) =>
              inputValue = searchTerm

C8_Witness ==
    /\ op = "search" /\ pc = "done" /\ outcome = "returned"
    /\ searchTerm = "ftira"
    /\ inputValue = "ftira"
    /\ Len(log) = 7
    /\ log[2] = Answered("url", "page", 0, "https://www.google.com/search?tbm=nws")
    /\ log[7].timeout = 10000

\* C9: when the query input does not become visible within the timeout,
\* executeSearch throws "Search execution failed: " with the cause and makes
\* no click, clear, fill, press or result-container wait.
C9_NoInputNoActions ==
    (op = "search" /\ Len(log) >= 1 /\ ~log[1].ok) =>
        /\ log[1].call = "waitForSelector"
        /\ log[1].arg = locators.searchBox
        /\ log[1].timeout = 10000
        /\ pc = "done"
        /\ outcome = "threw"
        /\ errorMessage = <<"Search execution failed: ", log[1].err>>
        /\ Len(log) = 1
        /\ inputValue \in PriorInputs

C9_Witness ==
    /\ op = "search" /\ pc = "done" /\ outcome = "threw"
    /\ log = <<Failed("waitForSelector", locators.searchBox, 10000, "Timeout exceeded")>>
    /\ inputValue = "old query"

\* C10: executeSearch returns normally only if every driver call succeeded and
\* the result container became present; if the result-container wait or any of
\* click, clear, fill, press (or any other step) fails, it throws the wrapped
\* error and does not return.
C10_SuccessOnlyIfAllStepsSucceeded ==
    op = "search" =>
        /\ outcome = "returned" =>
              /\ \A i \in 1..Len(log) : log[i].ok
              /\ log[Len(log)].call = "waitForSelector"
              /\ log[Len(log)].arg = locators.resultContainers
              /\ \A c \in InputActions : \E i \in 1..Len(log) : log[i].call = c
        /\ \A i \in 1..Len(log) :
              ~log[i].ok =>
                  /\ i = Len(log)
                  /\ pc = "done"
                  /\ outcome = "threw"
                  /\ errorMessage = <<"Search execution failed: ", log[i].err>>
        /\ pc = "done" => outcome \in {"returned", "threw"}
        /\ pc # "done" => outcome = "running"

C10_Witness ==
    /\ op = "search" /\ pc = "done" /\ outcome = "threw"
    /\ Len(log) >= 6
    /\ log[Len(log)] =
          Failed("waitForSelector", locators.resultContainers, config.waitTimeout,
                 "Timeout exceeded")
    /\ inputValue = searchTerm

----------------------------------------------------------------------------
(* Properties of the surface checks *)

\* a URL that carries a search-mode parameter, stated without the model's operators
HasModeParameter(u) == u # "https://www.google.com/" /\ u # "about:blank"

IsInputAction(e) == e.call \in {"click", "clear", "fill"} /\ e.arg = searchInput

\* C11: in executeSearch, whenever the URL read at the re-check carries any
\* mode parameter (not only image search), the page is sent back to the root
\* and the query input waited for before any click, clear or fill.
C11_AnyModeForcesRootBeforeInput ==
    op = "search" =>
        \A i \in 1..Len(log) :
            (log[i].call = "url" /\ HasModeParameter(log[i].val)) =>
                \A j \in (i + 1)..Len(log) :
                    IsInputAction(log[j]) =>
                        /\ j > i + 2
                        /\ log[i + 1] = Ok("goto", RootUrl, 0)
                        /\ log[i + 2].call = "waitForSelector"
                        /\ log[i + 2].ok

IsRootGoto(e) == e.call = "goto" /\ e.arg = RootUrl

\* what main-surface enforcement does up to the wait after a re-navigation;
\* waited(e) tells whether e is the wait the step has to make there
EnsureRenavigates(waited(_)) ==
    \A i \in 1..Len(log) :
        log[i].call = "url" =>
            IF HasModeParameter(log[i].val)
            THEN /\ i < Len(log) => IsRootGoto(log[i + 1])
                 /\ (i + 1 < Len(log) /\ log[i + 1].ok) => waited(log[i + 2])
                 /\ \A j \in (i + 1)..Len(log) :
                       log[j].arg = allTab => (j > i + 2 /\ log[i + 2].ok)
                 /\ pc \in {"n_return", "done"} => i < Len(log)
            ELSE \A j \in 1..Len(log) : ~IsRootGoto(log[j])

WaitsForQueryInput(e) == e.call = "waitForSelector" /\ e.arg = searchInput

WaitsFixedDelay(e) == e = Ok("waitForTimeout", "root", 1000) \/
                      \E err \in DriverErrors : e = Failed("waitForTimeout", "root", 1000, err)

\* C12 as claimed: when the URL carries a mode parameter, main-surface
\* enforcement re-navigates to the root and then waits for the primary query
\* input before it continues; with no mode parameter it does not re-navigate.
C12_RenavigatesThenWaitsForInput ==
    op = "navigate" => EnsureRenavigates(WaitsForQueryInput)

\* C12 as amended: when the URL carries a mode parameter, main-surface
\* enforcement re-navigates to the root and then waits a fixed 1000 ms settle
\* delay (not for the query input) before it probes the All tab; with no mode
\* parameter it does not re-navigate.
C12_RenavigatesThenSettles ==
    op = "navigate" => EnsureRenavigates(WaitsFixedDelay)

C12_Witness ==
    /\ op = "navigate" /\ pc = "done" /\ outcome = "returned"
    /\ \E i \in 1..(Len(log) - 3) :
          /\ log[i] = Answered("url", "page", 0, "https://www.google.com/search?tbm=nws")
          /\ log[i + 1] = Ok("goto", RootUrl, 0)
          /\ log[i + 2] = Ok("waitForTimeout", "root", 1000)
          /\ log[i + 3].arg = allTab
    /\ url = "https://www.google.com/"

EnsurePcs == {"e_url", "e_goto", "e_wait", "e_probe", "e_click", "e_settle", "n_return"}

\* C13: no failure inside main-surface enforcement propagates: a failed
\* re-navigation, wait, probe, click or settle ends the step, which completes
\* normally, and navigateToSearchEngine, once the initial navigation and
\* settle delay succeeded, returns normally.
C13_EnsureNeverFails ==
    op = "navigate" =>
        /\ pc \in EnsurePcs => (outcome = "running" /\ ENABLED NextNavigate)
        /\ (Len(log) >= 2 /\ log[1].ok /\ log[2].ok) =>
              /\ outcome # "threw"
              /\ errorMessage = NoError
              /\ pc = "done" => outcome = "returned"
        /\ \A i \in 1..Len(log) :
              (IsEnsureCall(log[i]) /\ ~log[i].ok) =>
                  /\ i = Len(log)
                  /\ pc \in {"n_return", "done"}
                  /\ outcome # "threw"

C13_Witness ==
    /\ op = "navigate" /\ pc = "done" /\ outcome = "returned"
    /\ \E i \in 1..Len(log) : IsRootGoto(log[i]) /\ log[i].ok
    /\ log[Len(log)] = Failed("click", allTab, 0, "Target page closed")

IsAllTabProbe(e) == e.call = "isVisible" /\ e.arg = allTab

\* C24: in main-surface enforcement the two checks are independent: a
\* navigation that returns has probed the All tab, also when the URL carried a
\* mode parameter and the re-navigation to the root failed, and an All tab
\* found visible is clicked and, once clicked, settled.
C24_AllTabCheckedIndependently ==
    (op = "navigate" /\ pc = "done" /\ outcome = "returned") =>
        /\ \E i \in 1..Len(log) : IsAllTabProbe(log[i])
        /\ \A i \in 1..Len(log) :
              (IsAllTabProbe(log[i]) /\ log[i].val = "visible") =>
                  /\ i < Len(log)
                  /\ log[i + 1].call = "click" /\ log[i + 1].arg = allTab
                  /\ log[i + 1].ok =>
                        (i + 1 < Len(log) /\ log[i + 2].call = "waitForTimeout")

----------------------------------------------------------------------------
(* Properties of extractResultData *)

\* the text of a node, where a node without text content has the empty text
TextOf(x) == IF x = Null THEN <<>> ELSE x

\* t is raw without its leading and trailing whitespace
IsTrimOf(t, raw) ==
    \E a \in 0..Len(raw), b \in 0..Len(raw) :
        /\ a + b <= Len(raw)
        /\ t = SubSeq(raw, a + 1, Len(raw) - b)
        /\ \A i \in 1..a : raw[i] = " "
        /\ \A i \in (Len(raw) - b + 1)..Len(raw) : raw[i] = " "
        /\ t = <<>> \/ (t[1] # " " /\ t[Len(t)] # " ")

\* e is the fully formed entry of the k-th rendered result
IsEntryOf(e, k) ==
    /\ DOMAIN e = {"position", "title", "description"}
    /\ e.position = k
    /\ IsTrimOf(e.title, TextOf(page.titles[k]))
    /\ IF k <= Len(page.descriptions)
       THEN IsTrimOf(e.description, TextOf(page.descriptions[k]))
       ELSE e.description = <<>>

ReadsDone(what) ==
    Cardinality({i \in 1..Len(log) :
                    log[i].call = "textContent" /\ log[i].arg = what /\ log[i].ok})

\* the results whose title, and description if the page has one for them, were read
CompletedEntries ==
    Cardinality({k \in 1..ReadsDone("resultTitles[i]") :
                    k > Len(page.descriptions) \/ k <= ReadsDone("resultDescriptions[i]")})

ExtractFailed == \E i \in 1..Len(log) : ~log[i].ok

\* C14: extractResultData never throws: wherever a driver call fails (locating
\* titles or descriptions, reading a title or a description), the call returns
\* normally with exactly the entries completed before the failure, each a
\* fully formed entry.
C14_ExtractNeverThrows ==
    op = "extract" =>
        /\ outcome # "threw"
        /\ errorMessage = NoError
        /\ pc # "done" => ENABLED NextExtract
        /\ \A i \in 1..Len(log) : ~log[i].ok => (i = Len(log) /\ pc = "done")
        /\ pc = "done" =>
              /\ outcome = "returned"
              /\ Len(returnedData) = CompletedEntries
              /\ \A k \in 1..Len(returnedData) : IsEntryOf(returnedData[k], k)

C14_Witness ==
    /\ op = "extract" /\ pc = "done" /\ outcome = "returned"
    /\ log[Len(log)] = Failed("textContent", "resultDescriptions[i]", 0, "Target page closed")
    /\ Len(returnedData) = 2
    /\ Len(page.titles) > 3

\* C15: with no driver error, for T title elements and D description elements
\* extractResultData returns min(T, 10) entries in rendered order; entry i has
\* position i, the trimmed text of title i, and the trimmed text of
\* description i when i <= D, else the empty string.
C15_ExtractPairsByIndex ==
    (op = "extract" /\ pc = "done" /\ ~ExtractFailed) =>
        /\ outcome = "returned"
        /\ Len(returnedData) = (IF Len(page.titles) < 10 THEN Len(page.titles) ELSE 10)
        /\ \A k \in 1..Len(returnedData) : IsEntryOf(returnedData[k], k)

C15_Witness ==
    /\ op = "extract" /\ pc = "done" /\ ~ExtractFailed
    /\ Len(page.titles) = 11
    /\ Len(page.descriptions) = 4
    /\ Len(returnedData) = 10
    /\ returnedData[1] = [position |-> 1, title |-> <<"t">>, description |-> <<"d">>]
    /\ returnedData[5].description = <<>>

----------------------------------------------------------------------------
(* Properties of captureEvidence *)

\* path is folder/name_<stamp>.png with a stamp free of ':' and '.'
IsEvidencePath(path, folder, name) ==
    /\ Len(path) > 5
    /\ SubSeq(path, 1, 4) = <<folder, "/", name, "_">>
    /\ path[Len(path)] = ".png"
    /\ \A i \in 5..(Len(path) - 1) : path[i] \notin {":", ".", "/"}

\* the path a capture with the same name and folder returns at instant t
PathAt(t) ==
    FilePath(captureArgs.folder, FileName(captureArgs.name, Timestamp(t)))

\* C16: captureEvidence takes exactly one screenshot, at folder/name_timestamp.png,
\* and returns that path; when the screenshot fails the error reaches the
\* caller unwrapped and no path is returned; a capture with the same name and
\* folder at any other instant gets a different path.
C16_OneScreenshotAtReturnedPath ==
    (op = "capture" /\ pc = "done") =>
        /\ Len(log) = 1
        /\ log[1].call = "screenshot"
        /\ outcome = "returned" <=> log[1].ok
        /\ outcome = "returned" =>
              /\ Len(screenshots) = 1
              /\ screenshots[1].path = returnedPath
              /\ screenshots[1].options = config.screenshotOptions
              /\ IsEvidencePath(returnedPath, captureArgs.folder, captureArgs.name)
              /\ \A t \in Times : t # clock => PathAt(t) # returnedPath
        /\ outcome # "returned" =>
              /\ outcome = "threw"
              /\ errorMessage = <<"", log[1].err>>
              /\ log[1].err \in DriverErrors
              /\ returnedPath = <<>>
              /\ screenshots = <<>>

C16_Witness ==
    /\ op = "capture" /\ pc = "done" /\ outcome = "returned"
    /\ clock = [h |-> 10, m |-> 59, s |-> 0, ms |-> 7]
    /\ returnedPath = <<"evidence", "/", "initial_state", "_", "2026-11-05", "T",
                        "1", "0", "-", "5", "9", "-", "0", "0", "-", "0", "0", "7", "Z",
                        ".png">>

----------------------------------------------------------------------------
(* Properties of the errors of the core operations *)

CoreOps == {"navigate", "search", "validate"}

PhasePrefix ==
    [navigate |-> "Navigation failed: ",
     search   |-> "Search execution failed: ",
     validate |-> "Result validation failed: "]

LastCallFailed == Len(log) > 0 /\ ~log[Len(log)].ok

\* a call that threw has ended with its phase's prefix on the cause's message
ThrownWithPhaseAndCause ==
    (op \in CoreOps /\ outcome = "threw") =>
        /\ pc = "done"
        /\ errorMessage[1] = PhasePrefix[op]
        /\ \A o \in CoreOps : errorMessage[1] = PhasePrefix[o] => o = op
        /\ IF LastCallFailed
           THEN /\ errorMessage[2] = log[Len(log)].err
                /\ errorMessage[2] \in DriverErrors
           ELSE /\ op = "validate" /\ GateViolated
                /\ errorMessage[2] = ExpectMessage

\* C18: every error thrown by navigateToSearchEngine, executeSearch and
\* validateSearchResults is thrown once per call (after it the call makes no
\* further step), and its message is the phase's prefix, distinct for
\* navigation, search and validation, followed by the cause's message.
C18_ThrownOnceWithPhasePrefix ==
    /\ []ThrownWithPhaseAndCause
    /\ [][outcome = "threw" => UNCHANGED <<outcome, errorMessage, log, pc>>]_vars

C18_Witness ==
    /\ op = "search" /\ pc = "done"
    /\ errorMessage = <<"Search execution failed: ", "Target page closed">>
    /\ Len(log) > 3

----------------------------------------------------------------------------
(* Properties of the scenario runner *)

ScenarioDone == op = "scenario" /\ rpc = "r_done"

\* the error of a failed search, validation or assertion
IsPhaseError(e) ==
    \/ e[1] \in {"Search execution failed: ", "Result validation failed: "}
    \/ e[2] \in {ExpectMessage, "expect(received).toBe(expected)"}

\* C17: when a phase of a scenario fails (search, validation or an assertion),
\* the scenario surfaces exactly one error, the error of that phase; a failed
\* failure-time screenshot never replaces or hides it.
C17_SurfacesExactlyThePhaseError ==
    (ScenarioDone /\ IsPhaseError(caught)) => reported = <<caught>>

\* C19: the runner's keyword assertion (at least 50% of the expected keywords
\* found) passes if and only if the validator's isValid is true, for every
\* expectedKeywords list, the empty list and lists with repeats included.
C19_KeywordAssertionIffIsValid ==
    [][(op = "scenario" /\ rpc = "r_keywords") =>
          (rpc' = "r_relevance" <=> scenarioResults.isValid)]_vars

----------------------------------------------------------------------------
(* Properties of a sequence of calls *)

\* what the constructor stored
Constructed == [locators |-> locators, config |-> config]

\* the result of a finished call, from its arguments and what it read
ResultFromArgumentsAndPage ==
    /\ (op = "validate" /\ pc = "done" /\ outcome = "returned") =>
          returnValue =
              ValidationResultOf(expectedKeywords, returnValue.totalResults, pageContent)
    /\ (op = "extract" /\ pc = "done") =>
          \A k \in 1..Len(returnedData) : IsEntryOf(returnedData[k], k)
    /\ (op = "capture" /\ pc = "done" /\ outcome = "returned") =>
          returnedPath = PathAt(clock)
    /\ (op = "navigate" /\ pc = "done") =>
          (outcome = "threw" <=> (NavigateFailedAt(1) \/ NavigateFailedAt(2)))
    /\ (op = "search" /\ pc = "done") =>
          (outcome = "threw" <=> DriverReadFailed)

\* C20: no sequence of calls, succeeding or failing, changes the validator's
\* locators or configuration; validateSearchResults never modifies its
\* expectedKeywords argument; and in every call, the first or a later one, the
\* result is determined by the call's arguments and what the page answered.
C20_StatelessAcrossCalls ==
    /\ [](self = Constructed)
    /\ []ResultFromArgumentsAndPage
    /\ [][(op = "validate" /\ op' = "validate") => UNCHANGED expectedKeywords]_vars

C20_Witness ==
    /\ calls = MaxCalls
    /\ op = "validate" /\ pc = "done" /\ outcome = "returned"
    /\ Len(expectedKeywords) = 2
    /\ expectedKeywords[1] = <<"A">>
    /\ returnValue.isValid

----------------------------------------------------------------------------
(* Properties of the query input *)

\* the query-input elements whose visibility lets the initial wait succeed
VisibleCandidates ==
    {f \in {"textarea", "input"} : queryInputs[f] = "visible"}

InitialWaitSucceeded ==
    /\ Len(log) >= 1
    /\ log[1].call = "waitForSelector" /\ log[1].ok

\* C23: in executeSearch the element clicked, cleared and filled is a
\* query-input element whose visibility the initial wait established: whenever
\* the wait succeeded because some candidate (textarea or input form) is
\* visible, the click, clear and fill go to a visible candidate.
C23_ActsOnTheVisibleQueryInput ==
    (op = "search" /\ InitialWaitSucceeded) =>
        \A i \in 1..Len(log) :
            (log[i].call \in {"click", "clear", "fill"}) =>
                /\ VisibleCandidates # {}
                /\ "textarea" \in VisibleCandidates

RelevanceError == <<"", "expect(received).toBe(expected)">>

\* part is what an extraction cut short by an error returns of full
IsPartialOf(part, full) ==
    /\ Len(part) <= Len(full)
    /\ \A k \in 1..Len(part) : part[k] = full[k]

\* C25: result extraction is not a correctness gate: a scenario whose search
\* succeeded and whose result-count and keyword assertions passed ends the
\* same way whether extractResultData returned full data, partial data or an
\* empty sequence; so one that failed on its extracted data would have failed
\* on the full data too.
C25_ExtractionIsNotAGate ==
    (ScenarioDone /\ caught = RelevanceError) =>
        \A full \in ExtractedData :
            IsPartialOf(scenarioData, full) =>
                ~SearchTermsInResults(full, queryData.term, queryData.expectedKeywords)

\* the test body ran: it passed, or one of its statements threw
BodyRan == testStatus = "passed" \/ caught # NoError

\* C26: every run of a scenario appends exactly one record to testResults:
\* a PASSED record iff every phase and assertion succeeded, otherwise one
\* FAILED record carrying the error's message, whatever the point of failure,
\* a failed failure-evidence capture included.
C26_OneRecordPerRun ==
    (ScenarioDone /\ BodyRan) =>
        /\ Len(testResults) = 1
        /\ testResults[1].status = "PASSED" <=> caught = NoError
        /\ testResults[1].status = "FAILED" <=> caught # NoError
        /\ testResults[1].error = caught

----------------------------------------------------------------------------
(* Properties of retries and termination *)

\* how often the driver method `call` was invoked on `arg` in this call
CallCount(call, arg) ==
    Cardinality({i \in 1..Len(log) : log[i].call = call /\ log[i].arg = arg})

\* how often the driver method `call` was invoked at all in this call
Invocations(call) == Cardinality({i \in 1..Len(log) : log[i].call = call})

\* C21: the core never retries: in one executeSearch call fill and press are
\* each invoked at most once and no driver action follows a failed one; in one
\* consent-handling pass each candidate is probed at most once and clicked at
\* most once.
C21_NoRetries ==
    /\ op = "search" =>
          /\ Invocations("fill") <= 1
          /\ Invocations("press") <= 1
          /\ \A i \in 1..Len(log) : ~log[i].ok => i = Len(log)
    /\ op = "navigate" =>
          \A c \in 1..Len(consentSelectors) :
              /\ CallCount("isVisible", consentSelectors[c]) <= 1
              /\ CallCount("click", consentSelectors[c]) <= 1

C21_Witness ==
    /\ op = "navigate" /\ pc = "done"
    /\ \E i \in 1..Len(log) : IsConsentProbe(log[i]) /\ ~log[i].ok
    /\ \E i \in 1..Len(log) : IsConsentClick(log[i]) /\ ~log[i].ok
    /\ \A c \in 1..Len(consentSelectors) :
          CallCount("isVisible", consentSelectors[c]) = 1

ConsentPcs == {"c_probe", "c_click", "c_settle"}

TitleReads ==
    Cardinality({i \in 1..Len(log) :
                    log[i].call = "textContent" /\ log[i].arg = "resultTitles[i]"})

\* C22: every core operation terminates when each driver call answers within
\* its timeout: a call of navigateToSearchEngine, executeSearch,
\* validateSearchResults or extractResultData eventually returns or throws,
\* consent handling eventually ends, having probed at most 4 candidates, and
\* extraction reads at most 10 titles.
C22_OperationsTerminate ==
    /\ (op # "none") ~> (pc = "done" /\ outcome \in {"returned", "threw"})
    /\ (op = "navigate" /\ pc \in ConsentPcs) ~> (pc \notin ConsentPcs)
    /\ [](op = "navigate" => Cardinality(ConsentProbes) <= 4)
    /\ [](op = "extract" => TitleReads <= 10)

C22_Witness ==
    /\ op = "extract" /\ pc = "done" /\ outcome = "returned"
    /\ Len(page.titles) = 11
    /\ TitleReads = 10

----------------------------------------------------------------------------
(* Properties of validation and extraction on one page *)

\* validateSearchResults returned and extractResultData, called next, is done
ExtractedAfterValidation ==
    /\ op = "extract" /\ pc = "done"
    /\ \E i \in 1..Len(log) : log[i].call = "textContent" /\ log[i].arg = "body"

NoDriverError == \A i \in 1..Len(log) : log[i].ok

\* C27: on an unchanged page and with no driver error, extractResultData
\* returns min(totalResults, 10) entries, totalResults being the count
\* validateSearchResults reported on that page; so after a gate passed with
\* minResultCount >= 1 the extraction is not empty.
C27_ExtractionCountMatchesValidation ==
    (ExtractedAfterValidation /\ NoDriverError) =>
        /\ Len(returnedData) =
              (IF returnValue.totalResults < 10 THEN returnValue.totalResults ELSE 10)
        /\ minResultCount >= 1 => returnedData # <<>>

C27_Witness ==
    /\ ExtractedAfterValidation /\ NoDriverError
    /\ returnValue.totalResults = 11
    /\ minResultCount = 3
    /\ Len(returnedData) = 10

====
